---- MODULE Spec2Model ----
(***************************************************************************)
(* supereeg: the population correlation Model (fit / update / predict),    *)
(* the Brain container and the recon_with_model command-line driver.       *)
(*                                                                         *)
(* Abstraction of the numerics.  Locations are points on a line (integer   *)
(* coordinates).  A recorded channel carries a signal; Pearson correlation *)
(* of two channels is a table over their signals, in halves (2 is r = 1).  *)
(* Floating point values are Val records: a finite integer, NaN, or an     *)
(* infinity with a sign, with IEEE rules for sums and products.            *)
(***************************************************************************)
EXTENDS Integers, Sequences, FiniteSets, TLC

VARIABLES heap, mo, ret, op, bo_p, brain, fs, stdout, run

vars == <<heap, mo, ret, op, bo_p, brain, fs, stdout, run>>

(***************************************************************************)
(* Bounds                                                                  *)
(***************************************************************************)
\* cap on the subject count of a Model (fit and update stop growing it here)
MaxSubs == 2
\* cap on the number of runs of the command-line driver
MaxRuns == 3
\* largest timeseries dimension handed to the Brain constructor
MaxDim == 3

(***************************************************************************)
(* Floating point values                                                   *)
(***************************************************************************)
Fin(n) == [k |-> "fin", v |-> n]
NaN == [k |-> "nan", v |-> 0]
Inf(s) == [k |-> "inf", v |-> s]

IsNaN(a) == a.k = "nan"

\* IEEE a + b
VAdd(a, b) ==
  IF IsNaN(a) \/ IsNaN(b) THEN NaN
  ELSE IF a.k = "inf" /\ b.k = "inf" THEN (IF a.v = b.v THEN a ELSE NaN)
  ELSE IF a.k = "inf" THEN a
  ELSE IF b.k = "inf" THEN b
  ELSE Fin(a.v + b.v)

\* IEEE w * a for a finite weight w >= 0
VScale(w, a) ==
  IF IsNaN(a) THEN NaN
  ELSE IF a.k = "inf" THEN (IF w = 0 THEN NaN ELSE a)
  ELSE Fin(w * a.v)

RECURSIVE VSum(_)
VSum(s) == IF s = <<>> THEN Fin(0) ELSE VAdd(Head(s), VSum(Tail(s)))

\* matrices are sequences of rows
Dim(m) == Len(m)
\* a slip: np.eye in place of np.zeros
Zeros_eye(n) == [i \in 1..n |-> [j \in 1..n |-> IF i = j THEN Fin(1) ELSE Fin(0)]]

Zeros(n) == [i \in 1..n |-> [j \in 1..n |-> Fin(0)]]
MatAdd(a, b) == [i \in 1..Dim(a) |-> [j \in 1..Dim(a) |-> VAdd(a[i][j], b[i][j])]]

\* np.nansum over a stack of two matrices: NaN counts as 0
NanZero(a) == IF IsNaN(a) THEN Fin(0) ELSE a
NanSum(a, b) ==
  [i \in 1..Dim(a) |-> [j \in 1..Dim(a) |-> VAdd(NanZero(a[i][j]), NanZero(b[i][j]))]]

(***************************************************************************)
(* Index helpers                                                           *)
(***************************************************************************)
Range(s) == {s[i] : i \in 1..Len(s)}
Min(S) == CHOOSE x \in S : \A y \in S : x <= y

\* sorted(set(...))
RECURSIVE sorted(_)
sorted(S) == IF S = {} THEN <<>> ELSE <<Min(S)>> \o sorted(S \ {Min(S)})

\* s.iloc[inds]
iloc(s, inds) == [k \in 1..Len(inds) |-> s[inds[k]]]

Abs(x) == IF x < 0 THEN -x ELSE x

\* a Location Set: an ordered sequence of coordinates without duplicates
IsLocationSet(locs) == \A i, j \in 1..Len(locs) : locs[i] = locs[j] => i = j

(***************************************************************************)
(* Subject records: locations, one signal per channel, a sample count      *)
(***************************************************************************)
Bo(l, d, n) == [locs |-> l, data |-> d, nsamples |-> n]

Subjects ==
  { Bo(<<2>>, <<1>>, 5),
    Bo(<<6, 2>>, <<1, 2>>, 5),
    Bo(<<3, 7>>, <<2, 2>>, 7),
    Bo(<<4, 9>>, <<3, 1>>, 5),
    Bo(<<2, 4, 6>>, <<1, 2, 3>>, 5),
    Bo(<<4, 2, 6, 9>>, <<1, 1, 2, 3>>, 7),
    Bo(<<2, 4>>, <<4, 1>>, 5),
    Bo(<<9, 4, 2>>, <<1, 2, 3>>, 7) }

\* the subjects a Model is fitted from and updated with
FitSubjects ==
  { Bo(<<2>>, <<1>>, 5),
    Bo(<<6, 2>>, <<1, 2>>, 5),
    Bo(<<3, 7>>, <<2, 2>>, 7),
    Bo(<<2, 4>>, <<4, 1>>, 5) }

\* reference location sets a Model is created on
RefLocs == { <<2, 4, 6>>, <<4, 2>> }

\* kurtosis threshold: the default of Model.__init__, predict and update
threshold == 10

(***************************************************************************)
(* Helpers of the package (helpers.py), called by model.py                 *)
(***************************************************************************)
\* kurtosis of a channel: signal 4 is an artifact-corrupted (spiky) channel
kurt_vals(sig) == IF sig = 4 THEN 12 ELSE 3

\* filter_elecs: keeps the channels whose kurtosis is at most the threshold
filter_elecs(bo, thr) ==
  LET keep == sorted({i \in 1..Len(bo.locs) : kurt_vals(bo.data[i]) <= thr})
  IN [locs |-> iloc(bo.locs, keep), data |-> iloc(bo.data, keep),
      nsamples |-> bo.nsamples]

\* Pearson correlation of two signals, in halves: 2 is r = 1, 1 is r = 0.5
Pearson(s, t) ==
  IF s = t THEN 2
  ELSE IF {s, t} = {1, 2} THEN 1
  ELSE IF {s, t} = {1, 3} THEN -1
  ELSE 0

\* get_corrmat: channel by channel correlation matrix of a subject
get_corrmat(bo) ==
  [i \in 1..Len(bo.data) |-> [j \in 1..Len(bo.data) |-> Pearson(bo.data[i], bo.data[j])]]

\* np.fill_diagonal(m, v)
fill_diagonal(m, v) ==
  [i \in 1..Len(m) |-> [j \in 1..Len(m) |-> IF i = j THEN v ELSE m[i][j]]]

\* Fisher z-transform atanh(r), z in units of 1/20: atanh(0.5) = 0.549
r2z_value(r) ==
  IF r >= 2 THEN Inf(1)
  ELSE IF r <= -2 THEN Inf(-1)
  ELSE IF r = 1 THEN Fin(11)
  ELSE IF r = -1 THEN Fin(-11)
  ELSE Fin(0)

r2z(m) == [i \in 1..Len(m) |-> [j \in 1..Len(m) |-> r2z_value(m[i][j])]]

\* the kernel: decreasing in the distance, underflowing to 0 far away
Kernel(d) == IF d = 0 THEN 8 ELSE IF d = 1 THEN 6 ELSE IF d = 2 THEN 3
             ELSE IF d = 3 THEN 1 ELSE 0

\* rbf(target, source): weights, rows = target locations, columns = source
rbf(target, source) ==
  [i \in 1..Len(target) |-> [j \in 1..Len(source) |-> Kernel(Abs(target[i] - source[j]))]]

\* expand_corrmat_fit: the subject's z matrix expanded onto the reference
\* locations; each cell sums, over the pairs of subject channels, the product
\* of their weights times the z value (numerator) and the product of their
\* weights (denominator); both symmetric with a zero diagonal
expand_corrmat_fit(Z, w) ==
  LET n == Len(w)
      c == Len(Z)
      pa(k) == ((k - 1) \div c) + 1
      pb(k) == ((k - 1) % c) + 1
      K(x, y) == VSum([k \in 1..(c * c) |-> VScale(w[x][pa(k)] * w[y][pb(k)], Z[pa(k)][pb(k)])])
      W(x, y) == VSum([k \in 1..(c * c) |-> Fin(w[x][pa(k)] * w[y][pb(k)])])
  IN [num |-> [x \in 1..n |-> [y \in 1..n |-> IF x = y THEN Fin(0) ELSE K(x, y)]],
      den |-> [x \in 1..n |-> [y \in 1..n |-> IF x = y THEN Fin(0) ELSE W(x, y)]]]

(***************************************************************************)
(* The heap of arrays: a Model object holds references to its arrays       *)
(***************************************************************************)
Alloc(h) == Min({i \in 1..(Cardinality(DOMAIN h) + 1) : i \notin DOMAIN h})

NoModel == [numerator |-> 0, denominator |-> 0, locs |-> <<>>, n_subs |-> -1]

Refs(m) == IF m = NoModel THEN {} ELSE {m.numerator, m.denominator}

\* arrays no Model refers to are freed
Collect(h, roots) == [i \in (DOMAIN h) \cap roots |-> h[i]]

\* what a reader of the Model sees
View(h, m) ==
  [numerator |-> h[m.numerator], denominator |-> h[m.denominator],
   locs |-> m.locs, n_subs |-> m.n_subs]

\* lists of subjects of a length in lo..hi
Lists(lo, hi) == UNION {[1..n -> FitSubjects] : n \in lo..hi}

(***************************************************************************)
(* Model.__init__                                                          *)
(***************************************************************************)
\* the shortcut: numerator, denominator, locs and n_subs are all given
Model(numerator, denominator, locs, n_subs) ==
  [numerator |-> numerator, denominator |-> denominator, locs |-> locs,
   n_subs |-> n_subs]

\* a slip: numerator = num_corrmat_x in place of numerator += num_corrmat_x
init_accumulate_assign(acc, x) ==
  [numerator |-> x.num, denominator |-> MatAdd(acc.denominator, x.den)]

\* numerator += num_corrmat_x ; denominator += denom_corrmat_x
init_accumulate(acc, x) ==
  [numerator |-> MatAdd(acc.numerator, x.num),
   denominator |-> MatAdd(acc.denominator, x.den)]

\* the body of the loop over brain objects
init_subject(locs, acc, bo0) ==
  LET bo == filter_elecs(bo0, threshold)
      sub_corrmat == fill_diagonal(get_corrmat(bo), 0)
      sub_corrmat_z == r2z(sub_corrmat)
      sub_rbf_weights == rbf(locs, bo.locs)
  IN init_accumulate(acc, expand_corrmat_fit(sub_corrmat_z, sub_rbf_weights))

RECURSIVE init_loop(_, _, _)
init_loop(locs, acc, data) ==
  IF data = <<>> THEN acc
  ELSE init_loop(locs, init_subject(locs, acc, Head(data)), Tail(data))

\* the matrices and subject count of a Model created from a list of subjects
init_from_data(locs, data) ==
  LET acc == init_loop(locs, [numerator |-> Zeros(Len(locs)),
                              denominator |-> Zeros(Len(locs))], data)
  IN [numerator |-> acc.numerator, denominator |-> acc.denominator,
      locs |-> locs, n_subs |-> Len(data)]

\* Model(locs=locs) with data left at None: data becomes the list [None]
\* and the first pass of the loop calls filter_elecs(None), which has no
\* Brain to filter and raises; no Model is constructed
init_data_none(locs) ==
  [status |-> "raised", locs |-> locs, data_len |-> Len(<<"None">>)]

FitNone(locs) ==
  /\ mo = NoModel
  /\ op.name = "init"
  /\ op' = [name |-> "fit_none", locs |-> locs,
            status |-> init_data_none(locs).status]
  /\ UNCHANGED <<heap, mo, ret, bo_p, brain, fs, stdout, run>>

Fit(locs, data) ==
  /\ mo = NoModel
  /\ op.name = "init"
  /\ LET v == init_from_data(locs, data)
     IN /\ heap' = (1 :> v.numerator) @@ (2 :> v.denominator)
        /\ mo' = Model(1, 2, v.locs, v.n_subs)
  /\ ret' = NoModel
  /\ op' = [name |-> "fit", locs |-> locs, data |-> data]
  /\ UNCHANGED <<bo_p, brain, fs, stdout, run>>

(***************************************************************************)
(* Model.update                                                            *)
(***************************************************************************)
\* a slip: m = self in place of m = copy.deepcopy(self)
deepcopy_alias(h, self) == [heap |-> h, m |-> self]

\* m = copy.deepcopy(self): fresh arrays holding the same values
deepcopy(h, self) ==
  LET a == Alloc(h)
      h1 == h @@ (a :> h[self.numerator])
      b == Alloc(h1)
  IN [heap |-> h1 @@ (b :> h[self.denominator]),
      m |-> Model(a, b, self.locs, self.n_subs)]

\* denom_corrmat_x[np.isnan(num_corrmat_x)] = 0
mask_denominator(x) ==
  [i \in 1..Dim(x.den) |-> [j \in 1..Dim(x.den) |->
      IF IsNaN(x.num[i][j]) THEN Fin(0) ELSE x.den[i][j]]]

\* one pass of the loop: numerator is rebound to a new array (np.nansum),
\* denominator is added to in place
update_subject(h, m, numerator, bo0) ==
  LET bo == filter_elecs(bo0, threshold)
      sub_corrmat == r2z(get_corrmat(bo))
      sub_rbf_weights == rbf(m.locs, bo.locs)
      x == expand_corrmat_fit(sub_corrmat, sub_rbf_weights)
      denom_corrmat_x == mask_denominator(x)
      new == Alloc(h)
      h1 == h @@ (new :> NanSum(h[numerator], x.num))
  IN [heap |-> [h1 EXCEPT ![m.denominator] = MatAdd(@, denom_corrmat_x)],
      numerator |-> new]

RECURSIVE update_loop(_, _, _, _, _)
update_loop(h, m, numerator, n_subs, data) ==
  IF data = <<>> THEN [heap |-> h, numerator |-> numerator, n_subs |-> n_subs]
  ELSE LET s == update_subject(h, m, numerator, Head(data))
       IN update_loop(s.heap, m, s.numerator, n_subs + 1, Tail(data))

\* a slip: n_subs += 1 after the loop in place of inside it
update_count_once(h, self, data) ==
  LET c == deepcopy(h, self)
      l == update_loop(c.heap, c.m, c.m.numerator, c.m.n_subs, data)
  IN [heap |-> l.heap,
      model |-> Model(l.numerator, c.m.denominator, c.m.locs, c.m.n_subs + 1)]

\* update(self, data): the heap afterwards and the Model returned
update(h, self, data) ==
  LET c == deepcopy(h, self)
      l == update_loop(c.heap, c.m, c.m.numerator, c.m.n_subs, data)
  IN [heap |-> l.heap,
      model |-> Model(l.numerator, c.m.denominator, c.m.locs, l.n_subs)]

Update(data) ==
  /\ mo # NoModel
  /\ bo_p.status = "none"
  /\ mo.n_subs + Len(data) <= MaxSubs
  /\ LET u == update(heap, mo, data)
     IN /\ ret' = u.model
        /\ heap' = Collect(u.heap, Refs(mo) \cup Refs(u.model))
  /\ mo' = mo
  /\ op' = [name |-> "update", data |-> data]
  /\ UNCHANGED <<bo_p, brain, fs, stdout, run>>

\* the caller keeps the returned Model and drops the one it had
\* (mo = mo.update(...)); the kept arrays are renamed to 1 and 2
Adopt ==
  /\ ret # NoModel
  /\ op.name = "update"
  /\ heap' = (1 :> heap[ret.numerator]) @@ (2 :> heap[ret.denominator])
  /\ mo' = Model(1, 2, ret.locs, ret.n_subs)
  /\ ret' = NoModel
  /\ op' = [name |-> "adopt"]
  /\ UNCHANGED <<bo_p, brain, fs, stdout, run>>

(***************************************************************************)
(* Model.predict                                                           *)
(***************************************************************************)
\* IEEE a / b: the quotient of two finite values is kept as the fraction
VDiv(a, b) ==
  IF IsNaN(a) \/ IsNaN(b) THEN NaN
  ELSE IF a.k = "inf" THEN (IF b.k = "inf" THEN NaN
                            ELSE Inf(IF b.v < 0 THEN -(a.v) ELSE a.v))
  ELSE IF b.k = "inf" THEN Fin(0)
  ELSE IF b.v = 0 THEN (IF a.v = 0 THEN NaN ELSE Inf(IF a.v < 0 THEN -1 ELSE 1))
  ELSE [k |-> "frac", v |-> <<a.v, b.v>>]

\* np.divide(a, b)
divide(a, b) == [i \in 1..Dim(a) |-> [j \in 1..Dim(a) |-> VDiv(a[i][j], b[i][j])]]

Max(S) == CHOOSE x \in S : \A y \in S : y <= x

\* 'auto' match threshold: the largest spacing between adjacent reference
\* locations
auto_threshold(locs) ==
  LET c == sorted(Range(locs))
  IN IF Len(c) < 2 THEN 0 ELSE Max({c[i + 1] - c[i] : i \in 1..(Len(c) - 1)})

\* index of the reference location closest to x (the first one on a tie)
nearest(locs, x) ==
  Min({i \in 1..Len(locs) : \A j \in 1..Len(locs) : Abs(locs[i] - x) <= Abs(locs[j] - x)})

\* near_neighbor: every electrode moves to its closest reference location;
\* electrodes farther than the threshold from all of them are dropped
near_neighbor(bo, locs) ==
  LET d(i) == Abs(locs[nearest(locs, bo.locs[i])] - bo.locs[i])
      keep == sorted({i \in 1..Len(bo.locs) : d(i) <= auto_threshold(locs)})
  IN [locs |-> [k \in 1..Len(keep) |-> locs[nearest(locs, bo.locs[keep[k]])]],
      data |-> iloc(bo.data, keep), nsamples |-> bo.nsamples]

\* count_overlapping: for each model location, does a subject location equal it
count_overlapping(locs, bo) ==
  [i \in 1..Len(locs) |-> \E j \in 1..Len(bo.locs) : bo.locs[j] = locs[i]]

all(mask) == \A i \in 1..Len(mask) : mask[i]
any(mask) == \E i \in 1..Len(mask) : mask[i]
sum(mask) == Cardinality({i \in 1..Len(mask) : mask[i]})
where(mask) == {i \in 1..Len(mask) : mask[i]}

\* ['reconstructed'] * n + ['observed'] * m
labels(n, m) == [i \in 1..(n + m) |-> IF i <= n THEN "reconstructed" ELSE "observed"]

\* a slip: force_update adds in place (self.numerator += num_corrmat_x)
predict_force_update_inplace(h, self, bo) ==
  LET x == expand_corrmat_fit(r2z(fill_diagonal(get_corrmat(bo), 0)), rbf(self.locs, bo.locs))
      h1 == [h EXCEPT ![self.numerator] = MatAdd(@, x.num),
                      ![self.denominator] = MatAdd(@, x.den)]
  IN [heap |-> h1,
      model_corrmat_x |-> divide(h1[self.numerator], h1[self.denominator])]

\* force_update: the subject's contribution is added to the model's matrices
\* for this estimate only (np.add returns new arrays)
predict_force_update(h, self, bo) ==
  LET sub_corrmat == fill_diagonal(get_corrmat(bo), 0)
      sub_corrmat_z == r2z(sub_corrmat)
      sub_rbf_weights == rbf(self.locs, bo.locs)
      x == expand_corrmat_fit(sub_corrmat_z, sub_rbf_weights)
  IN [heap |-> h,
      model_corrmat_x |-> divide(MatAdd(h[self.numerator], x.num),
                                 MatAdd(h[self.denominator], x.den))]

\* without force_update: np.divide(self.numerator, self.denominator)
predict_estimate(h, self) ==
  [heap |-> h, model_corrmat_x |-> divide(h[self.numerator], h[self.denominator])]

\* a slip: only a subject with as many locations as the model is rejected
predict_rejects_equal(bool_mask, bo) ==
  all(bool_mask) /\ Len(bo.locs) = Len(bool_mask)

\* the assertion: the model is a complete subset of the patient locations
predict_rejects(bool_mask, bo) == all(bool_mask)

\* no overlap: the model is expanded onto its own and the subject's locations
align_disjoint(locs, bo) ==
  [case |-> "disjoint",
   corrmat_locs |-> locs \o bo.locs,
   loc_label |-> labels(Len(locs), Len(bo.locs)),
   perm_locs |-> locs \o bo.locs,
   bo |-> bo]

\* a slip: the labels of the no-overlap branch are used
align_subset_labels(locs, bo, joint_model_inds) ==
  LET perm_inds == sorted((1..Len(locs)) \ joint_model_inds) \o sorted(joint_model_inds)
  IN [case |-> "subset",
      corrmat_locs |-> iloc(locs, perm_inds),
      loc_label |-> labels(Len(locs), Len(bo.locs)),
      perm_locs |-> iloc(locs, perm_inds),
      bo |-> bo]

\* all subject locations are model locations: the overlapping model indices
\* go to the right edge
align_subset(locs, bo, joint_model_inds) ==
  LET perm_inds == sorted((1..Len(locs)) \ joint_model_inds) \o sorted(joint_model_inds)
  IN [case |-> "subset",
      corrmat_locs |-> iloc(locs, perm_inds),
      loc_label |-> labels(Len(locs) - Len(bo.locs), Len(bo.locs)),
      perm_locs |-> iloc(locs, perm_inds),
      bo |-> bo]

\* a slip: perm_inds in place of perm_inds_unknown in the last two lines
align_partial_all(locs, bo, joint_model_inds) ==
  LET bool_bo_mask == [j \in 1..Len(bo.locs) |-> \E i \in 1..Len(locs) : bo.locs[j] = locs[i]]
      disjoint_bo_inds == (1..Len(bo.locs)) \ where(bool_bo_mask)
      perm_inds == sorted((1..Len(locs)) \ joint_model_inds) \o sorted(joint_model_inds)
      bo_perm_inds == sorted((1..Len(bo.locs)) \ disjoint_bo_inds) \o sorted(disjoint_bo_inds)
      bo1 == [locs |-> iloc(bo.locs, bo_perm_inds), data |-> iloc(bo.data, bo_perm_inds),
              nsamples |-> bo.nsamples]
  IN [case |-> "partial",
      corrmat_locs |-> iloc(locs, perm_inds) \o iloc(bo.locs, sorted(disjoint_bo_inds)),
      loc_label |-> labels(Len(perm_inds), Len(bo1.locs)),
      perm_locs |-> iloc(locs, perm_inds) \o bo1.locs,
      bo |-> bo1]

\* some subject locations are model locations and some are not
align_partial(locs, bo, joint_model_inds) ==
  LET bool_bo_mask == [j \in 1..Len(bo.locs) |-> \E i \in 1..Len(locs) : bo.locs[j] = locs[i]]
      disjoint_bo_inds == (1..Len(bo.locs)) \ where(bool_bo_mask)
      perm_inds == sorted((1..Len(locs)) \ joint_model_inds) \o sorted(joint_model_inds)
      model_locs_permuted == iloc(locs, perm_inds)
      bo_perm_inds == sorted((1..Len(bo.locs)) \ disjoint_bo_inds) \o sorted(disjoint_bo_inds)
      sub_bo == iloc(bo.locs, sorted(disjoint_bo_inds))
      bo1 == [locs |-> iloc(bo.locs, bo_perm_inds), data |-> iloc(bo.data, bo_perm_inds),
              nsamples |-> bo.nsamples]
      perm_inds_unknown == sorted((1..Len(locs)) \ joint_model_inds)
  IN [case |-> "partial",
      corrmat_locs |-> model_locs_permuted \o sub_bo,
      loc_label |-> labels(Len(perm_inds_unknown), Len(bo1.locs)),
      perm_locs |-> iloc(locs, perm_inds_unknown) \o bo1.locs,
      bo |-> bo1]

\* the three-way branch on the overlap
align(locs, bo, bool_mask) ==
  IF ~any(bool_mask) THEN align_disjoint(locs, bo)
  ELSE IF sum(bool_mask) = Len(bo.locs) THEN align_subset(locs, bo, where(bool_mask))
  ELSE align_partial(locs, bo, where(bool_mask))

\* timeseries_recon: one regressed column for each location of the leading
\* (unknown) block of the matrix; the trailing block is the subject's channels
timeseries_recon(bo, corrmat_locs) ==
  [i \in 1..(Len(corrmat_locs) - Len(bo.locs)) |-> [kind |-> "reconstructed", of |-> corrmat_locs[i]]]

\* zscore(bo.data): the subject's channels, column by column
zscore(bo) == [j \in 1..Len(bo.data) |-> [kind |-> "observed", of |-> bo.data[j]]]

\* predict(self, bo, nearest_neighbor, force_update): the heap afterwards and
\* the record returned, or the assertion failure
predict(h, self, bo0, nearest_neighbor, force_update) ==
  LET bo1 == IF nearest_neighbor THEN near_neighbor(bo0, self.locs) ELSE bo0
      bo == filter_elecs(bo1, threshold)
      e == IF force_update THEN predict_force_update(h, self, bo)
           ELSE predict_estimate(h, self)
      bool_mask == count_overlapping(self.locs, bo)
      a == align(self.locs, bo, bool_mask)
      reconstructed == timeseries_recon(a.bo, a.corrmat_locs)
      activations == reconstructed \o zscore(a.bo)
  IN IF predict_rejects(bool_mask, bo)
     THEN [heap |-> e.heap, status |-> "AssertionError", case |-> "none",
           recon |-> FALSE]
     ELSE [heap |-> e.heap, status |-> "returned", case |-> a.case, recon |-> TRUE,
           model_corrmat_x |-> e.model_corrmat_x,
           corrmat_locs |-> a.corrmat_locs,
           data |-> activations, locs |-> a.perm_locs, label |-> a.loc_label,
           nsamples |-> a.bo.nsamples]

\* the subject as the overlap test sees it (after snapping and filtering)
Aligned(self, bo0, nearest_neighbor) ==
  filter_elecs(IF nearest_neighbor THEN near_neighbor(bo0, self.locs) ELSE bo0, threshold)

Predict(bo, nearest_neighbor, force_update) ==
  /\ mo # NoModel
  /\ ret = NoModel
  /\ bo_p.status = "none"
  /\ IsLocationSet(Aligned(mo, bo, nearest_neighbor).locs)
  /\ Len(Aligned(mo, bo, nearest_neighbor).locs) >= 1
  /\ LET p == predict(heap, mo, bo, nearest_neighbor, force_update)
     IN /\ heap' = p.heap
        /\ bo_p' = [f \in (DOMAIN p) \ {"heap"} |-> p[f]]
  /\ op' = [name |-> "predict", bo |-> bo, nearest_neighbor |-> nearest_neighbor,
            force_update |-> force_update]
  /\ UNCHANGED <<mo, ret, brain, fs, stdout, run>>

\* the caller is done with the record predict returned
Drop ==
  /\ bo_p.status # "none"
  /\ bo_p' = [status |-> "none"]
  /\ op' = [name |-> "drop"]
  /\ UNCHANGED <<heap, mo, ret, brain, fs, stdout, run>>

(***************************************************************************)
(* Brain.__init__ (superEEG/brain.py)                                      *)
(***************************************************************************)
\* the default sample rate when none is given
default_sample_rate == 1000

\* self.sessions: one label per sample
brain_sessions(T, sessions) ==
  IF sessions = "int" THEN [i \in 1..T |-> 7]
  ELSE IF sessions = "None" THEN [i \in 1..T |-> 1]
  ELSE [i \in 1..T |-> (i % 2) + 1]

\* self.sample_rate
brain_sample_rate(sess, sample_rate) ==
  IF sample_rate = "list" THEN [i \in 1..Cardinality(Range(sess)) |-> 500]
  ELSE IF sample_rate = "None" THEN [i \in 1..Len(sess) |-> default_sample_rate]
  ELSE <<500>>

\* Brain(data, locs, sessions, sample_rate): data has T samples and C
\* channels, locs has L rows
brain_init(T, C, L, sessions, sample_rate) ==
  LET sess == brain_sessions(T, sessions)
      rate == brain_sample_rate(sess, sample_rate)
  IN IF rate = <<>>
     THEN [status |-> "IndexError", data_shape |-> <<T, C>>, n_locs |-> L]
     ELSE [status |-> "constructed", data_shape |-> <<T, C>>, n_locs |-> L,
           sessions |-> sess, sample_rate |-> rate, n_elecs |-> C,
           n_secs |-> <<T, rate[1]>>, n_sessions |-> Cardinality(Range(sess))]

BrainInit(T, C, L, sessions, sample_rate) ==
  /\ brain.status = "none"
  /\ brain' = brain_init(T, C, L, sessions, sample_rate)
  /\ op' = [name |-> "Brain", sessions |-> sessions, sample_rate |-> sample_rate]
  /\ UNCHANGED <<heap, mo, ret, bo_p, fs, stdout, run>>

(***************************************************************************)
(* The command-line driver: main(fname, r, k_thresh)                       *)
(***************************************************************************)
lower_time_gif == 0
upper_time_gif == 10

\* str() of the numbers the driver puts in names
str(n) == IF n = 0 THEN "0" ELSE IF n = 10 THEN "10" ELSE IF n = 2 THEN "2"
          ELSE IF n = 4 THEN "4" ELSE "n"

\* the subject files and the kurtosis of their electrodes (K_subj)
FileNames == {"s1", "s2"}
K_subj(file_name) == IF file_name = "s1" THEN <<3, 5, 12>> ELSE <<3, 3, 3>>
Thresholds == {2, 4, 10}
Radii == {1, 2}

\* good_chans: the electrodes that pass the kurtosis threshold; the empty
\* list when none does
good_chans(K, k_thresh) ==
  LET k_flat == sorted({i \in 1..Len(K) : K[i] <= k_thresh})
  IN IF k_flat = <<>> THEN [kind |-> "list", shape |-> 0, k_flat |-> k_flat]
     ELSE [kind |-> "array", shape |-> Len(k_flat), k_flat |-> k_flat]

\* the average model file for a threshold and radius: the condensed
\* (upper-triangle) sums over three reference locations; the pair of the two
\* outer locations has no weight at the smaller radius
Ave_data(k_thresh, r) ==
  IF r = 1 THEN [matrix_sum |-> <<Fin(22), Fin(0), Fin(-11)>>,
                 weights_sum |-> <<Fin(2), Fin(0), Fin(1)>>]
  ELSE [matrix_sum |-> <<Fin(22), Fin(5), Fin(-11)>>,
        weights_sum |-> <<Fin(2), Fin(1), Fin(1)>>]

\* position in the condensed vector of the pair i < j of three locations
condensed(i, j) == IF i = 1 THEN j - 1 ELSE 3

\* squareform(v, checks=False): the symmetric matrix with a zero diagonal
squareform(v) ==
  [i \in 1..3 |-> [j \in 1..3 |->
      IF i = j THEN Fin(0)
      ELSE IF i < j THEN v[condensed(i, j)] ELSE v[condensed(j, i)]]]

\* Ave_mat as handed to expand_corrmat_j: the quotient of the sums, the
\* diagonal set to 0, every NaN set to 0
Ave_mat(k_thresh, r) ==
  LET d == Ave_data(k_thresh, r)
      q == squareform([p \in 1..3 |-> VDiv(d.matrix_sum[p], d.weights_sum[p])])
      z == fill_diagonal(q, Fin(0))
  IN [i \in 1..3 |-> [j \in 1..3 |-> IF IsNaN(z[i][j]) THEN Fin(0) ELSE z[i][j]]]

\* gif_dir
gif_dir(file_name) ==
  <<"gif_", file_name, "_", str(lower_time_gif), "_", str(upper_time_gif)>>

\* the file whose existence is tested before any work
checked_file(file_name) ==
  [dir |-> gif_dir(file_name),
   name |-> <<"gif", file_name, "_", str(lower_time_gif), "_", str(upper_time_gif), ".mat">>]

\* outfile: the file the reconstruction is saved to
outfile(file_name) == [dir |-> gif_dir(file_name), name |-> <<"gif_df.mat">>]

isdir(d) == [dir |-> d, name |-> <<>>] \in fs
isfile(f) == f \in fs

\* main: the file system and standard output afterwards, and what was done
main(fname, r, k_thresh) ==
  LET file_name == fname
      fs1 == fs \cup {[dir |-> gif_dir(file_name), name |-> <<>>]}
      g == good_chans(K_subj(file_name), k_thresh)
      base == [fname |-> fname, r |-> r, k_thresh |-> k_thresh,
               existed |-> isfile(outfile(file_name)), Ave_mat |-> <<>>,
               loaded |-> FALSE, survivors |-> -1, printed |-> FALSE, wrote |-> FALSE]
  IN IF ~isfile(checked_file(file_name))
     THEN IF ~(g.kind = "list")
          THEN IF g.shape > 1
               THEN [fs |-> fs1 \cup {outfile(file_name)}, stdout |-> stdout,
                     run |-> [base EXCEPT !.loaded = TRUE, !.survivors = g.shape,
                                          !.wrote = TRUE,
                                          !.Ave_mat = Ave_mat(k_thresh, r)]]
               ELSE [fs |-> fs1,
                     stdout |-> Append(stdout, <<"not enough electrodes pass k = ", str(k_thresh)>>),
                     run |-> [base EXCEPT !.loaded = TRUE, !.survivors = g.shape,
                                          !.printed = TRUE]]
          ELSE [fs |-> fs1, stdout |-> stdout,
                run |-> [base EXCEPT !.loaded = TRUE, !.survivors = g.shape]]
     ELSE [fs |-> fs1, stdout |-> Append(stdout, <<"gif exists">>), run |-> base]

Main(fname, r, k_thresh) ==
  /\ run.n < MaxRuns
  /\ LET m == main(fname, r, k_thresh)
     IN /\ fs' = m.fs
        /\ stdout' = m.stdout
        /\ run' = [status |-> "done", n |-> run.n + 1, last |-> m.run,
                   wrote |-> IF m.run.wrote
                             THEN run.wrote \cup {<<fname, r, k_thresh>>}
                             ELSE run.wrote,
                   repeat |-> <<fname, r, k_thresh>> \in run.wrote]
  /\ op' = [name |-> "main"]
  /\ UNCHANGED <<heap, mo, ret, bo_p, brain>>

NoResult == [status |-> "none"]

Init ==
  /\ heap = <<>>
  /\ mo = NoModel
  /\ ret = NoModel
  /\ op = [name |-> "init"]
  /\ bo_p = NoResult
  /\ brain = NoResult
  /\ fs = {}
  /\ stdout = <<>>
  /\ run = [status |-> "none", n |-> 0, wrote |-> {}]

Next ==
  \/ \E locs \in RefLocs, data \in Lists(0, MaxSubs) : Fit(locs, data)
  \/ \E locs \in RefLocs : FitNone(locs)
  \/ \E data \in Lists(0, MaxSubs - 1) : Update(data)
  \/ Adopt
  \/ \E bo \in Subjects, nearest_neighbor \in BOOLEAN, force_update \in BOOLEAN :
        Predict(bo, nearest_neighbor, force_update)
  \/ Drop

\* the Model: fit, update, predict
Spec == Init /\ [][Next]_vars

NextBrain ==
  \E T \in 0..MaxDim, C \in 0..MaxDim, L \in 0..MaxDim,
     sessions \in {"None", "int", "array"}, sample_rate \in {"None", "number", "list"} :
        BrainInit(T, C, L, sessions, sample_rate)

\* the Brain constructor
SpecBrain == Init /\ [][NextBrain]_vars

NextCli == \E fname \in FileNames, r \in Radii, k_thresh \in Thresholds : Main(fname, r, k_thresh)

\* the command-line driver, run again and again
SpecCli == Init /\ [][NextCli]_vars

(***************************************************************************)
(* Properties                                                              *)
(***************************************************************************)
\* the subject of the last predict as the overlap test saw it
Seen == Aligned(mo, op.bo, op.nearest_neighbor)

Symmetric(m) == \A i, j \in 1..Dim(m) : m[i][j] = m[j][i]
ZeroDiagonal(m) == \A i \in 1..Dim(m) : m[i][i] = Fin(0)

\* C1: update leaves the Model it is called on as it was (numerator,
\* denominator, locations, subject count), whatever was updated before; the
\* Model it returns has the same locations and the subjects added to the count
C1_UpdateLeavesOriginal ==
  [][op'.name = "update" =>
       /\ mo' = mo
       /\ View(heap', mo') = View(heap, mo)
       /\ ret'.locs = mo.locs
       /\ ret'.n_subs = mo.n_subs + Len(op'.data)]_vars

\* C1 witness: an update added a subject and the returned Model's matrices
\* differ from the original's
C1_Witness ==
  /\ op.name = "update"
  /\ Len(op.data) >= 1
  /\ heap[ret.denominator] # heap[mo.denominator]
  /\ heap[ret.numerator] # heap[mo.numerator]

\* C2: when every model location is a location of the subject (after snapping
\* and filtering), predict fails its assertion and neither the alignment nor
\* the reconstruction runs
C2_CoveredModelRejected ==
  (op.name = "predict" /\ Range(mo.locs) \subseteq Range(Seen.locs)) =>
     (bo_p.status = "AssertionError" /\ bo_p.case = "none" /\ ~bo_p.recon)

\* C2 witness: a subject whose locations are a strict superset of the model's
\* was rejected
C2_Witness ==
  /\ op.name = "predict"
  /\ Range(mo.locs) \subseteq Range(Seen.locs)
  /\ Len(Seen.locs) > Len(mo.locs)
  /\ bo_p.status = "AssertionError"

C5_FitOrderIndependent ==
  op.name = "fit" =>
     \A p \in Permutations(1..Len(op.data)) :
        init_from_data(op.locs, [i \in 1..Len(op.data) |-> op.data[p[i]]]) = View(heap, mo)

\* C5 witness: a Model fitted from two different subjects that both add to
\* the numerator
C5_Witness ==
  /\ op.name = "fit"
  /\ Len(op.data) >= 2
  /\ op.data[1] # op.data[2]
  /\ init_from_data(op.locs, <<op.data[1]>>).numerator # Zeros(Len(op.locs))
  /\ init_from_data(op.locs, <<op.data[2]>>).numerator # Zeros(Len(op.locs))
  /\ init_from_data(op.locs, <<op.data[1]>>).numerator
        # init_from_data(op.locs, <<op.data[2]>>).numerator

\* C6: predict leaves the Model as it was, with force_update or without
C6_PredictLeavesModel ==
  [][op'.name = "predict" =>
       /\ mo' = mo
       /\ ret' = ret
       /\ View(heap', mo') = View(heap, mo)]_vars

\* C6 witness: a predict with force_update returned a record built from an
\* estimate that differs from the Model's own
C6_Witness ==
  /\ op.name = "predict"
  /\ op.force_update
  /\ bo_p.status = "returned"
  /\ bo_p.model_corrmat_x # divide(heap[mo.numerator], heap[mo.denominator])

\* C7: a Brain whose timeseries has a channel count other than its number of
\* locations is never constructed
C7_ShapeMismatchRejected ==
  (brain.status # "none" /\ brain.data_shape[2] # brain.n_locs) =>
     brain.status # "constructed"

\* C8: a run of the driver for a file, radius and threshold whose earlier run
\* wrote its output loads nothing and writes nothing
C8_RepeatRunSkips ==
  (run.status = "done" /\ run.repeat) => (~run.last.loaded /\ ~run.last.wrote)

\* C9: a run in which fewer than two channels pass the kurtosis filter prints
\* a diagnostic and writes no output
C9_TooFewChannelsDiagnosed ==
  (run.status = "done" /\ run.last.loaded /\ run.last.survivors < 2) =>
     (run.last.printed /\ ~run.last.wrote)

\* C10: for a subject at M of the model's N locations (1 <= M < N) predict
\* returns N channels with the subject's sample count, labelled N - M times
\* reconstructed and then M times observed
C10_SubsetShape ==
  (/\ op.name = "predict"
   /\ Len(Seen.locs) >= 1
   /\ Range(Seen.locs) \subseteq Range(mo.locs)
   /\ Range(Seen.locs) # Range(mo.locs)) =>
     /\ bo_p.status = "returned"
     /\ Len(bo_p.data) = Len(mo.locs)
     /\ Len(bo_p.locs) = Len(mo.locs)
     /\ bo_p.nsamples = op.bo.nsamples
     /\ bo_p.label = labels(Len(mo.locs) - Len(Seen.locs), Len(Seen.locs))

\* C10 witness: N = 3, M = 1 and 5 samples
C10_Witness ==
  /\ op.name = "predict"
  /\ Len(mo.locs) = 3
  /\ Len(Seen.locs) = 1
  /\ Range(Seen.locs) \subseteq Range(mo.locs)
  /\ op.bo.nsamples = 5
  /\ bo_p.status = "returned"
  /\ Len(bo_p.data) = 3
  /\ bo_p.label = <<"reconstructed", "reconstructed", "observed">>

\* C11: in the record predict returns, the column at every observed position
\* is the channel the subject recorded at the location listed there, and the
\* known block of the aligned correlation matrix is in that same order
C11_ColumnsMatchLocations ==
  (op.name = "predict" /\ bo_p.status = "returned") =>
     \A j \in 1..Len(bo_p.locs) :
        bo_p.label[j] = "observed" =>
           /\ \E i \in 1..Len(Seen.locs) :
                 /\ Seen.locs[i] = bo_p.locs[j]
                 /\ bo_p.data[j] = [kind |-> "observed", of |-> Seen.data[i]]
           /\ bo_p.corrmat_locs[j] = bo_p.locs[j]

\* the Model is, value for value, the Model fitted from the list d
FittedFrom(d) == init_from_data(mo.locs, d) = View(heap, mo)

\* C12: a Model fitted from a list and then updated with more subjects has
\* the numerator and denominator of the Model fitted from the whole list
C12_UpdateAccumulatesAsFit ==
  op.name = "update" =>
     \A d \in Lists(1, MaxSubs) :
        FittedFrom(d) =>
           /\ heap[ret.numerator] = init_from_data(mo.locs, d \o op.data).numerator
           /\ heap[ret.denominator] = init_from_data(mo.locs, d \o op.data).denominator

\* C13: a Model fitted from k subjects counts k; an update with m subjects
\* returns a Model counting m more; the count of the caller's Model never
\* decreases, and the locations and the matrix dimensions never change
C13_SubjectCount ==
  [][/\ op'.name = "fit" =>
          /\ mo'.n_subs = Len(op'.data)
          /\ mo'.locs = op'.locs
          /\ Dim(heap'[mo'.numerator]) = Len(op'.locs)
          /\ Dim(heap'[mo'.denominator]) = Len(op'.locs)
     /\ op'.name = "update" =>
          /\ ret'.n_subs = mo.n_subs + Len(op'.data)
          /\ ret'.locs = mo.locs
          /\ Dim(heap'[ret'.numerator]) = Len(mo.locs)
          /\ Dim(heap'[ret'.denominator]) = Len(mo.locs)
     /\ mo # NoModel => (mo'.n_subs >= mo.n_subs /\ mo'.locs = mo.locs)]_vars

\* C13 witness: an update of a Model that already counts subjects added one
C13_Witness ==
  /\ op.name = "update"
  /\ mo.n_subs >= 1
  /\ Len(op.data) >= 1
  /\ ret.n_subs = mo.n_subs + Len(op.data)

\* the contribution of one subject as update computes it
update_contribution(locs, bo0) ==
  LET bo == filter_elecs(bo0, threshold)
  IN expand_corrmat_fit(r2z(get_corrmat(bo)), rbf(locs, bo.locs))

\* a cell without accumulated weight reads as undefined in the estimate
UnknownWhereNoWeight(num, den) ==
  \A i, j \in 1..Dim(den) :
     (i # j /\ den[i][j] = Fin(0)) => IsNaN(VDiv(num[i][j], den[i][j]))

\* C14 for update: a cell whose contribution from the subject is NaN keeps
\* its numerator and its denominator
C14_UpdateSkipsMissing ==
  (op.name = "update" /\ Len(op.data) = 1) =>
     \A i, j \in 1..Len(mo.locs) :
        IsNaN(update_contribution(mo.locs, op.data[1]).num[i][j]) =>
           /\ heap[ret.numerator][i][j] = heap[mo.numerator][i][j]
           /\ heap[ret.denominator][i][j] = heap[mo.denominator][i][j]

\* C14 for the Model: after fit and update, a cell no subject gave weight to
\* reads as undefined in numerator / denominator
C14_ModelUnknown ==
  \A m \in {mo, ret} \ {NoModel} :
     UnknownWhereNoWeight(heap[m.numerator], heap[m.denominator])

\* C14 for the driver: a cell of the average model without weight is not
\* handed on as a finite value
C14_DriverUnknown ==
  (run.status = "done" /\ run.last.wrote) =>
     \A i, j \in 1..3 :
        (i < j /\ Ave_data(run.last.k_thresh, run.last.r).weights_sum[condensed(i, j)] = Fin(0))
           => IsNaN(run.last.Ave_mat[i][j])

\* C14: missing weight is never reported as a zero correlation, in update, in
\* the Model's estimate and in the driver
C14_MissingWeightNotZero ==
  C14_UpdateSkipsMissing /\ C14_ModelUnknown /\ C14_DriverUnknown

\* C15: a Model constructed from a location set of size N and no subject
\* data exists, with N by N zero matrices and a subject count of 0
C15_EmptyModel ==
  op.name = "fit_none" =>
     /\ mo # NoModel
     /\ mo.locs = op.locs
     /\ mo.n_subs = 0
     /\ heap[mo.numerator] = Zeros(Len(op.locs))
     /\ heap[mo.denominator] = Zeros(Len(op.locs))

====
